---- MODULE Spec2Model ----
(***************************************************************************)
(* Model of 01_organize_photos_chronologically.ipynb: the "Solution"      *)
(* cells.  First pass (cell 12): every shortlisted photo of every dated   *)
(* subfolder is copied to the staging folder under a name derived from    *)
(* its own name; shortlisted videos are copied to the final folder.       *)
(* Second pass (cell 13): every staged .jpg gets the timestamp of its     *)
(* name written into its EXIF DateTimeOriginal tag if it has none, and is *)
(* moved to the final folder.                                             *)
(*                                                                         *)
(* File names are sequences of one-character strings, so that slicing,    *)
(* parsing and formatting are computed the way the code computes them.    *)
(***************************************************************************)
EXTENDS Integers, Sequences, FiniteSets, TLC

(***************************************************************************)
(* Bounds of the model.                                                    *)
(***************************************************************************)
MaxYear == 2024
MaxShortlisted == 2
MaxApply == 3

(***************************************************************************)
(* Characters, Python slicing, int() and zero-padded rendering.            *)
(***************************************************************************)
Digits == <<"0", "1", "2", "3", "4", "5", "6", "7", "8", "9">>

IsDigit(c) == \E i \in 1..10 : Digits[i] = c

DigitVal(c) == (CHOOSE i \in 1..10 : Digits[i] = c) - 1

AllDigits(s) == \A i \in 1..Len(s) : IsDigit(s[i])

Min(a, b) == IF a < b THEN a ELSE b

\* Python s[a:b] for 0 <= a <= b (the end is clamped to the length).
Slice(s, a, b) == SubSeq(s, a + 1, Min(b, Len(s)))

\* Python s[:b].
Prefix(s, b) == Slice(s, 0, b)

\* Python `sub in s`.
Contains(s, sub) ==
    \E i \in 0..(Len(s) - Len(sub)) : Slice(s, i, i + Len(sub)) = sub

\* int(s) of a string of decimal digits.
RECURSIVE int(_)
int(s) ==
    IF s = <<>> THEN 0
    ELSE 10 * int(SubSeq(s, 1, Len(s) - 1)) + DigitVal(s[Len(s)])

\* A number as w decimal digits, zero-padded on the left.
RECURSIVE Pad(_, _)
Pad(n, w) ==
    IF w = 0 THEN <<>>
    ELSE Pad(n \div 10, w - 1) \o <<Digits[(n % 10) + 1]>>

(***************************************************************************)
(* Calendar arithmetic of datetime (proleptic Gregorian ordinals).         *)
(***************************************************************************)
IsLeap(y) == (y % 4 = 0) /\ ((y % 100 # 0) \/ (y % 400 = 0))

DaysInMonth(y, m) ==
    IF m = 2 THEN (IF IsLeap(y) THEN 29 ELSE 28)
    ELSE IF m \in {4, 6, 9, 11} THEN 30 ELSE 31

\* Days of the year before the first of month m, without the leap day.
DaysBeforeMonthTable == <<0, 31, 59, 90, 120, 151, 181, 212, 243, 273, 304, 334>>

DaysBeforeMonth(y, m) ==
    DaysBeforeMonthTable[m] + (IF m > 2 /\ IsLeap(y) THEN 1 ELSE 0)

DaysBeforeYear(y) ==
    (y - 1) * 365 + ((y - 1) \div 4) - ((y - 1) \div 100) + ((y - 1) \div 400)

\* date.toordinal(): 0001-01-01 is day 1.
ymd2ord(y, m, d) == DaysBeforeYear(y) + DaysBeforeMonth(y, m) + d

\* date.fromordinal(): the inverse, by 400-, 100-, 4- and 1-year cycles.
ord2ymd(ordinal) ==
    LET n0   == ordinal - 1
        n400 == n0 \div 146097
        r400 == n0 % 146097
        n100 == r400 \div 36524
        r100 == r400 % 36524
        n4   == r100 \div 1461
        r4   == r100 % 1461
        n1   == r4 \div 365
        n    == r4 % 365
        year == n400 * 400 + 1 + n100 * 100 + n4 * 4 + n1
    IN  IF n1 = 4 \/ n100 = 4
        THEN [year |-> year - 1, month |-> 12, day |-> 31]
        ELSE LET leap  == (n1 = 3) /\ ((n4 # 24) \/ (n100 = 3))
                 guess == (n + 50) \div 32
                 prec  == DaysBeforeMonthTable[guess]
                          + (IF guess > 2 /\ leap THEN 1 ELSE 0)
                 month == IF prec > n THEN guess - 1 ELSE guess
                 before == DaysBeforeMonthTable[month]
                           + (IF month > 2 /\ leap THEN 1 ELSE 0)
             IN  [year |-> year, month |-> month, day |-> n - before + 1]

\* Ordinal of 1970-01-01.
EpochOrdinal == ymd2ord(1970, 1, 1)

DateTime(y, mo, d, h, mi, s, us) ==
    [year |-> y, month |-> mo, day |-> d,
     hour |-> h, minute |-> mi, second |-> s, microsecond |-> us]

\* The placeholder of a datetime variable that holds None.
NoTime == DateTime(0, 0, 0, 0, 0, 0, 0)

\* Result of a call that raises.
Raised == [ok |-> FALSE, val |-> NoTime]

Returned(v) == [ok |-> TRUE, val |-> v]

\* datetime.strptime(s, '%Y%m%d_%H%M%S'): fixed-width fields, every field
\* in range and the day in the month; anything else raises ValueError.
strptime(s) ==
    IF /\ Len(s) = 15
       /\ s[9] = "_"
       /\ AllDigits(Slice(s, 0, 8))
       /\ AllDigits(Slice(s, 9, 15))
    THEN LET y  == int(Slice(s, 0, 4))
             mo == int(Slice(s, 4, 6))
             d  == int(Slice(s, 6, 8))
             h  == int(Slice(s, 9, 11))
             mi == int(Slice(s, 11, 13))
             sc == int(Slice(s, 13, 15))
         IN  IF /\ y >= 1
                /\ mo \in 1..12
                /\ d >= 1
                /\ d <= DaysInMonth(y, mo)
                /\ h <= 23
                /\ mi <= 59
                /\ sc <= 59
             THEN Returned(DateTime(y, mo, d, h, mi, sc, 0))
             ELSE Raised
    ELSE Raised

\* datetime.utcfromtimestamp(sec + ms/1000).
utcfromtimestamp(sec, ms) ==
    LET date == ord2ymd(EpochOrdinal + (sec \div 86400))
        rem  == sec % 86400
    IN  DateTime(date.year, date.month, date.day,
                 rem \div 3600, (rem % 3600) \div 60, rem % 60, ms * 1000)

\* dt + timedelta(hours=h): through the ordinal, so the hours carry into the
\* day, the month and the year.
AddHours(dt, h) ==
    LET total == dt.hour * 3600 + dt.minute * 60 + dt.second + h * 3600
        date  == ord2ymd(ymd2ord(dt.year, dt.month, dt.day) + (total \div 86400))
        secs  == total % 86400
    IN  DateTime(date.year, date.month, date.day,
                 secs \div 3600, (secs % 3600) \div 60, secs % 60, dt.microsecond)

\* One strftime directive, 12-hour clock for %H.
Directive_TwelveHour(c, dt) ==
    IF c = "Y" THEN Pad(dt.year, 4)
    ELSE IF c = "m" THEN Pad(dt.month, 2)
    ELSE IF c = "d" THEN Pad(dt.day, 2)
    ELSE IF c = "H" THEN Pad(dt.hour % 12, 2)
    ELSE IF c = "M" THEN Pad(dt.minute, 2)
    ELSE IF c = "S" THEN Pad(dt.second, 2)
    ELSE IF c = "%" THEN <<"%">>
    ELSE <<"%", c>>

\* One strftime directive: %Y %m %d %H %M %S are zero-padded fields, %% is
\* a percent sign; any other directive is left as written.
Directive(c, dt) ==
    IF c = "Y" THEN Pad(dt.year, 4)
    ELSE IF c = "m" THEN Pad(dt.month, 2)
    ELSE IF c = "d" THEN Pad(dt.day, 2)
    ELSE IF c = "H" THEN Pad(dt.hour, 2)
    ELSE IF c = "M" THEN Pad(dt.minute, 2)
    ELSE IF c = "S" THEN Pad(dt.second, 2)
    ELSE IF c = "%" THEN <<"%">>
    ELSE <<"%", c>>

\* dt.strftime(fmt): directives are expanded, every other character of the
\* format is copied.
RECURSIVE strftime(_, _)
strftime(fmt, dt) ==
    IF fmt = <<>> THEN <<>>
    ELSE IF fmt[1] = "%" /\ Len(fmt) >= 2
    THEN Directive(fmt[2], dt) \o strftime(SubSeq(fmt, 3, Len(fmt)), dt)
    ELSE <<fmt[1]>> \o strftime(Tail(fmt), dt)

(***************************************************************************)
(* Literals of the notebook.                                               *)
(***************************************************************************)
IMG == <<"I", "M", "G">>
PXL == <<"P", "X", "L">>
SixteenPrefix == <<"1", "6">>
DotJpg == <<".", "j", "p", "g">>
VidMark == <<"V", "I", "D", "_">>
NoneStr == <<"N", "o", "n", "e">>
NoonInfix == <<"_", "1", "2", "0", "0", "0", "0", "_">>

\* '%Y%m%d_%H%M%S'
StampFormat ==
    <<"%", "Y", "%", "m", "%", "d", "_", "%", "H", "%", "M", "%", "S">>

\* 'IMG_%Y%m%d_%H%M%S.jpg'
CanonicalFormat == IMG \o <<"_">> \o StampFormat \o DotJpg

\* '%Y%m%d'
DateFormat == <<"%", "Y", "%", "m", "%", "d">>

\* Tag format with dashes in the date.
TagFormat_Dashes ==
    <<"%", "Y", "-", "%", "m", "-", "%", "d", " ",
      "%", "H", ":", "%", "M", ":", "%", "S">>

\* "%Y:%m:%d %H:%M:%S"
TagFormat ==
    <<"%", "Y", ":", "%", "m", ":", "%", "d", " ",
      "%", "H", ":", "%", "M", ":", "%", "S">>

(***************************************************************************)
(* First pass, one photo: the name under which it is staged.               *)
(***************************************************************************)
\* Local time with the eight hours added to the hour field only.
local_time_NoCarry(utc_time) ==
    [utc_time EXCEPT !.hour = (utc_time.hour + 8) % 24]

\* local_time = utc_time + timedelta(hours=8)
local_time(utc_time) == AddHours(utc_time, 8)

\* The outcome of the loop body up to the copy: which branch ran, whether it
\* raised, the values of utc_time and local_time, whether new_name is a
\* string or None, and new_name as it is formatted into the target path.
Outcome(branch, raised, utc, loc, named, new_name) ==
    [branch |-> branch, raised |-> raised, utc_time |-> utc,
     local_time |-> loc, named |-> named, new_name |-> new_name]

\* `if utc_time:` -- the name from the local time, or the folder date at
\* noon followed by the photo's name when the dates differ.  The fallback
\* name is itself passed through strftime.
converted(branch, name, current_date, utc_time) ==
    LET loc == local_time(utc_time)
    IN  Outcome(branch, FALSE, utc_time, loc, TRUE,
                IF strftime(DateFormat, loc) # current_date
                THEN strftime(IMG \o <<"_">> \o current_date \o NoonInfix \o name,
                              loc)
                ELSE strftime(CanonicalFormat, loc))

\* int(photo.name[:13]) / 1000 as whole seconds and milliseconds: the last
\* three digits are the milliseconds, the digits before them the seconds.
unix_ts(digits) ==
    [sec |-> int(SubSeq(digits, 1, Len(digits) - 3)),
     ms  |-> int(SubSeq(digits, IF Len(digits) > 3 THEN Len(digits) - 2 ELSE 1,
                        Len(digits)))]

\* The dispatch on the photo's name.
resolve(name, current_date) ==
    IF Prefix(name, 3) = IMG
    THEN Outcome("IMG", FALSE, NoTime, NoTime, TRUE, name)
    ELSE IF Prefix(name, 3) = PXL
    THEN LET parsed == strptime(Slice(name, 4, 19))
         IN  IF parsed.ok
             THEN converted("PXL", name, current_date, parsed.val)
             ELSE Outcome("PXL", TRUE, NoTime, NoTime, FALSE, NoneStr)
    ELSE IF Prefix(name, 2) = SixteenPrefix
    THEN LET digits == Prefix(name, 13)
         IN  IF AllDigits(digits)
             THEN LET ts == unix_ts(digits)
                  IN  converted("16", name, current_date,
                                utcfromtimestamp(ts.sec, ts.ms))
             ELSE Outcome("16", TRUE, NoTime, NoTime, FALSE, NoneStr)
    ELSE Outcome("else", FALSE, NoTime, NoTime, FALSE, NoneStr)

(***************************************************************************)
(* Second pass, one staged file: recovery of the timestamp and the write.  *)
(***************************************************************************)
\* An EXIF block: absent, unparseable or parsed; the value of tag 36867 is
\* a byte string, empty when the tag is missing or holds b''.
Exif(block, tag) == [block |-> block, tag |-> tag]

\* A file: the source file whose pixels it holds, how often it has been
\* re-saved, and its EXIF block.
File(src, saves, exif) == [src |-> src, saves |-> saves, exif |-> exif]

\* local_str = photo.name[4:19]; local_time = strptime(local_str)
recover(name) == strptime(Slice(name, 4, 19))

\* local_time_bytestr
local_time_bytestr(dt) == strftime(TagFormat, dt)

\* The tag is stored and the image saved whatever the block holds.
write_exif_Always(file, bytestr) ==
    File(file.src, file.saves + 1, Exif("parsed", bytestr))

\* The image is never saved with the tag.
write_exif_Never(file, bytestr) == file

\* `if not exif_dict.get('Exif').get(EXIF_DATETIME_TAG):` store the tag and
\* im.save the file in place; otherwise leave the file alone.
write_exif(file, bytestr) ==
    IF file.exif.tag = <<>>
    THEN File(file.src, file.saves + 1, Exif("parsed", bytestr))
    ELSE file

\* The loop body of the second pass up to the move: the exception it ends
\* with ("none" when it reaches the move) and the file as it leaves it.
\* im.info["exif"] raises KeyError when the image has no EXIF block, and
\* piexif.load raises on a block it cannot parse; both happen before the
\* try statement.
tag_photo(name, file) ==
    IF file.exif.block = "absent"
    THEN [error |-> "KeyError", file |-> file]
    ELSE IF file.exif.block = "unparseable"
    THEN [error |-> "InvalidImageDataError", file |-> file]
    ELSE LET rec == recover(name)
         IN  IF ~rec.ok
             THEN [error |-> "ValueError", file |-> file]
             ELSE [error |-> "none",
                   file |-> write_exif(file, local_time_bytestr(rec.val))]

(***************************************************************************)
(* Inputs of the resolver: names of the three forms rendered from dates    *)
(* and times around the ends of days, months and years, and a few names    *)
(* of no form.                                                             *)
(***************************************************************************)
Years == (MaxYear - 2)..MaxYear

GenDates ==
    {d \in [year : Years, month : {1, 2, 3, 12}, day : {1, 25, 28, 29, 31}] :
        d.day <= DaysInMonth(d.year, d.month)}

GenTimes ==
    {[hour |-> 4, minute |-> 2, second |-> 53],
     [hour |-> 15, minute |-> 59, second |-> 59],
     [hour |-> 16, minute |-> 0, second |-> 0],
     [hour |-> 23, minute |-> 59, second |-> 59]}

GenInstants ==
    {DateTime(d.year, d.month, d.day, t.hour, t.minute, t.second, 0) :
        d \in GenDates, t \in GenTimes}

\* YYYYMMDD of a date.
DateDigits(dt) == Pad(dt.year, 4) \o Pad(dt.month, 2) \o Pad(dt.day, 2)

\* YYYYMMDD_HHMMSS of an instant.
StampDigits(dt) ==
    DateDigits(dt) \o <<"_">>
        \o Pad(dt.hour, 2) \o Pad(dt.minute, 2) \o Pad(dt.second, 2)

\* Days from 1970-01-01 to the first of January of year y, year by year.
RECURSIVE DaysToYear(_)
DaysToYear(y) ==
    IF y <= 1970 THEN 0
    ELSE DaysToYear(y - 1) + (IF IsLeap(y - 1) THEN 366 ELSE 365)

\* Days from the first of January to the first of month m, month by month.
RECURSIVE DaysToMonth(_, _)
DaysToMonth(y, m) ==
    IF m <= 1 THEN 0 ELSE DaysToMonth(y, m - 1) + DaysInMonth(y, m - 1)

\* Seconds from the Unix epoch to an instant given in UTC.
EpochSeconds(dt) ==
    (DaysToYear(dt.year) + DaysToMonth(dt.year, dt.month) + dt.day - 1) * 86400
        + dt.hour * 3600 + dt.minute * 60 + dt.second

CameraName(dt) == IMG \o <<"_">> \o StampDigits(dt) \o DotJpg

DeviceName(dt, tail) == PXL \o <<"_">> \o StampDigits(dt) \o tail \o DotJpg

EpochName(dt, ms) == Pad(EpochSeconds(dt), 10) \o Pad(ms, 3) \o DotJpg

DeviceTails == {<<"4", "9", "8">>, <<"%", "H">>}

\* Names of no form, and names with a known prefix and no timestamp.
DSC_0001 == <<"D", "S", "C", "_", "0", "0", "0", "1">> \o DotJpg
PXL_foo == PXL \o <<"_", "f", "o", "o">> \o DotJpg
Sixteen_abc == SixteenPrefix \o <<"a", "b", "c">> \o DotJpg
IMG_0001 == IMG \o <<"_", "0", "0", "0", "1">> \o DotJpg

OddNames == {DSC_0001, PXL_foo, Sixteen_abc, IMG_0001}

\* An input of the resolver: the form it was rendered as, the instant and
\* milliseconds it encodes, and the name.
Input(form, dt, ms, name) == [form |-> form, dt |-> dt, ms |-> ms, name |-> name]

Inputs ==
    {Input("camera", dt, 0, CameraName(dt)) : dt \in GenInstants}
    \cup {Input("device", dt, 0, DeviceName(dt, tail)) :
            dt \in GenInstants, tail \in DeviceTails}
    \cup {Input("epoch", dt, 625, EpochName(dt, 625)) : dt \in GenInstants}
    \cup {Input("odd", NoTime, 0, n) : n \in OddNames}

\* Folder dates: the first and the 25th of the months.
GenHints == {DateDigits(d) : d \in {g \in GenDates : g.day \in {1, 25}}}

NoInput == Input("none", NoTime, 0, <<>>)

NoOutcome == Outcome("none", FALSE, NoTime, NoTime, FALSE, <<>>)

(***************************************************************************)
(* The photo library of the pipeline: dated subfolders and their files.    *)
(***************************************************************************)
\* "YYYY:MM:DD HH:MM:SS" of an instant, as a camera stores it.
TagBytes(dt) ==
    Pad(dt.year, 4) \o <<":">> \o Pad(dt.month, 2) \o <<":">> \o Pad(dt.day, 2)
        \o <<" ">> \o Pad(dt.hour, 2) \o <<":">> \o Pad(dt.minute, 2)
        \o <<":">> \o Pad(dt.second, 2)

\* A subfolder name: its date, a space and a letter.
Folder(y, m, d, letter) == DateDigits(DateTime(y, m, d, 0, 0, 0, 0)) \o <<" ", letter>>

Folder21 == Folder(2022, 11, 21, "o")
Folder22 == Folder(2022, 11, 22, "f")
Folder25 == Folder(2022, 11, 25, "s")

SourceFile(dir, name, exif) == [dir |-> dir, name |-> name, exif |-> exif]

NoTagBlock == Exif("parsed", <<>>)

\* The files of the library.  The first is the notebook's EXAMPLE1, whose
\* camera tag is an hour behind its name; the second has the same name in
\* another folder.
Catalog ==
    << SourceFile(Folder21, CameraName(DateTime(2022, 11, 21, 23, 1, 14, 0)),
                  Exif("parsed", TagBytes(DateTime(2022, 11, 21, 22, 1, 14, 0)))),
       SourceFile(Folder25, CameraName(DateTime(2022, 11, 21, 23, 1, 14, 0)),
                  NoTagBlock),
       SourceFile(Folder25,
                  DeviceName(DateTime(2022, 11, 25, 4, 2, 53, 0), <<"4", "9", "8">>),
                  NoTagBlock),
       SourceFile(Folder25,
                  DeviceName(DateTime(2022, 11, 25, 4, 2, 53, 0), <<"7", "7", "7">>),
                  NoTagBlock),
       SourceFile(Folder22, EpochName(DateTime(2022, 11, 24, 2, 28, 1, 0), 625),
                  NoTagBlock),
       SourceFile(Folder25,
                  DeviceName(DateTime(2022, 11, 24, 17, 0, 0, 0), <<"0", "0", "0">>),
                  Exif("absent", <<>>)),
       SourceFile(Folder22, DSC_0001, NoTagBlock),
       SourceFile(Folder25, PXL_foo, NoTagBlock),
       SourceFile(Folder22, IMG_0001, NoTagBlock),
       SourceFile(Folder21, VidMark \o <<"1", ".", "m", "p", "4">>,
                  Exif("absent", <<>>)),
       SourceFile(Folder22,
                  IMG \o <<"_">> \o StampDigits(DateTime(2022, 11, 22, 13, 56, 46, 0))
                      \o <<"_", "1">> \o DotJpg,
                  NoTagBlock),
       SourceFile(Folder21, CameraName(DateTime(2022, 11, 21, 9, 5, 7, 0)),
                  Exif("unparseable", <<>>)) >>

FileIds == 1..Len(Catalog)

Folders == {Catalog[i].dir : i \in FileIds}

\* A folder's content: a function from file names to files.
EmptyFolder == [n \in {} |-> File(0, 0, NoTagBlock)]

\* shutil.copy / shutil.move to dir/name: the entry is created or replaced.
Put(folder, name, file) == (name :> file) @@ folder

Remove(folder, name) == [n \in DOMAIN folder \ {name} |-> folder[n]]

(***************************************************************************)
(* State.                                                                  *)
(***************************************************************************)
VARIABLES
    tagged,     \* ids of the files that carry a macOS tag (the shortlist)
    phase,      \* "off", "pass1", "pass2", "done", "failed1", "failed2"
    error,      \* the exception that ended the run, "none" if none
    subfolders, \* subfolders the first pass has still to visit
    subfolder,  \* the subfolder being visited, <<>> between subfolders
    photos,     \* ids of the photos of `subfolder` still to stage
    videos,     \* ids of the videos of `subfolder` still to copy
    warned,     \* ids of the photos a warning was logged for
    tmp,        \* TMP_FOLDER: name -> file
    final,      \* FINAL_FOLDER: name -> file
    staged,     \* names of the second pass's `photos` still to process
    moved,      \* names the second pass has moved to FINAL_FOLDER
    r_pc,       \* resolver run: "off", "input", "resolved", "recovered", "raised"
    r_in,       \* the photo of the run
    r_date,     \* current_date of the run
    r_out,      \* outcome of the first pass for the photo
    r_rec,      \* local_time recovered by the second pass
    r_tag,      \* local_time_bytestr of the second pass
    w_pc,       \* writer run: "off", "on"
    w_name,     \* name of the file the writer is applied to
    w_file,     \* the file
    w_prev,     \* the file before the last application
    w_error,    \* the exception of the last application
    w_n         \* number of applications

pipelineVars ==
    <<tagged, phase, error, subfolders, subfolder, photos, videos, warned,
      tmp, final, staged, moved>>

resolverVars == <<r_pc, r_in, r_date, r_out, r_rec, r_tag>>

writerVars == <<w_pc, w_name, w_file, w_prev, w_error, w_n>>

vars == <<pipelineVars, resolverVars, writerVars>>

PipelineOff ==
    /\ tagged = {}
    /\ phase = "off"
    /\ error = "none"
    /\ subfolders = {}
    /\ subfolder = <<>>
    /\ photos = {}
    /\ videos = {}
    /\ warned = {}
    /\ tmp = EmptyFolder
    /\ final = EmptyFolder
    /\ staged = {}
    /\ moved = {}

ResolverOff ==
    /\ r_pc = "off"
    /\ r_in = NoInput
    /\ r_date = <<>>
    /\ r_out = NoOutcome
    /\ r_rec = Raised
    /\ r_tag = <<>>

WriterOff ==
    /\ w_pc = "off"
    /\ w_name = <<>>
    /\ w_file = File(0, 0, NoTagBlock)
    /\ w_prev = File(0, 0, NoTagBlock)
    /\ w_error = "none"
    /\ w_n = 0

(***************************************************************************)
(* The pipeline: first pass over the subfolders, second pass over tmp.     *)
(***************************************************************************)
Init ==
    /\ tagged \in {s \in SUBSET FileIds : Cardinality(s) <= MaxShortlisted}
    /\ phase = "pass1"
    /\ error = "none"
    /\ subfolders = Folders
    /\ subfolder = <<>>
    /\ photos = {}
    /\ videos = {}
    /\ warned = {}
    /\ tmp = EmptyFolder
    /\ final = EmptyFolder
    /\ staged = {}
    /\ moved = {}
    /\ ResolverOff
    /\ WriterOff

\* current_date: the first 8 characters of the subfolder's name.
current_date(dir) == Prefix(dir, 8)

\* photos = [f for f in os.scandir(subfolder) if '.jpg' in f.name and tags]
shortlisted_photos(dir) ==
    {i \in FileIds : /\ Catalog[i].dir = dir
                     /\ Contains(Catalog[i].name, DotJpg)
                     /\ i \in tagged}

\* videos = [f for f in os.scandir(subfolder) if 'VID_' in f.name and tags]
shortlisted_videos(dir) ==
    {i \in FileIds : /\ Catalog[i].dir = dir
                     /\ Contains(Catalog[i].name, VidMark)
                     /\ i \in tagged}

\* The staging folder after the copy of photo i under the outcome's name;
\* new_name is formatted into the path whether it is a string or None.
copy_to_tmp(folder, i, out) ==
    Put(folder, out.new_name, File(i, 0, Catalog[i].exif))

\* `for subfolder in subfolders:` -- the next subfolder and its lists.
EnterSubfolder ==
    /\ phase = "pass1"
    /\ subfolder = <<>>
    /\ \E d \in subfolders :
        /\ subfolder' = d
        /\ subfolders' = subfolders \ {d}
        /\ photos' = shortlisted_photos(d)
        /\ videos' = shortlisted_videos(d)
    /\ UNCHANGED <<tagged, phase, error, warned, tmp, final, staged, moved>>
    /\ UNCHANGED <<resolverVars, writerVars>>

\* `for photo in photos:` -- one photo, in the order scandir yields them.
StagePhoto ==
    /\ phase = "pass1"
    /\ subfolder # <<>>
    /\ \E i \in photos :
        LET out == resolve(Catalog[i].name, current_date(subfolder))
        IN  IF out.raised
            THEN /\ phase' = "failed1"
                 /\ error' = "ValueError"
                 /\ UNCHANGED <<photos, warned, tmp>>
            ELSE /\ photos' = photos \ {i}
                 /\ warned' = IF out.branch = "else" THEN warned \cup {i} ELSE warned
                 /\ tmp' = copy_to_tmp(tmp, i, out)
                 /\ UNCHANGED <<phase, error>>
    /\ UNCHANGED <<tagged, subfolders, subfolder, videos, final, staged, moved>>
    /\ UNCHANGED <<resolverVars, writerVars>>

\* `for video in videos:` -- after the photos of the subfolder.
CopyVideo ==
    /\ phase = "pass1"
    /\ subfolder # <<>>
    /\ photos = {}
    /\ \E i \in videos :
        /\ videos' = videos \ {i}
        /\ final' = Put(final, Catalog[i].name, File(i, 0, Catalog[i].exif))
    /\ UNCHANGED <<tagged, phase, error, subfolders, subfolder, photos, warned,
                   tmp, staged, moved>>
    /\ UNCHANGED <<resolverVars, writerVars>>

\* The end of the body of the subfolder loop.
LeaveSubfolder ==
    /\ phase = "pass1"
    /\ subfolder # <<>>
    /\ photos = {}
    /\ videos = {}
    /\ subfolder' = <<>>
    /\ UNCHANGED <<tagged, phase, error, subfolders, photos, videos, warned,
                   tmp, final, staged, moved>>
    /\ UNCHANGED <<resolverVars, writerVars>>

\* photos = [f for f in os.scandir(TMP_FOLDER) if '.jpg' in f.name]
StartSecondPass ==
    /\ phase = "pass1"
    /\ subfolder = <<>>
    /\ subfolders = {}
    /\ phase' = "pass2"
    /\ staged' = {n \in DOMAIN tmp : Contains(n, DotJpg)}
    /\ UNCHANGED <<tagged, error, subfolders, subfolder, photos, videos, warned,
                   tmp, final, moved>>
    /\ UNCHANGED <<resolverVars, writerVars>>

\* `for photo in photos:` of the second pass -- tag one staged file and
\* shutil.move it; the move raises when the final folder has the name.
TagAndMove ==
    /\ phase = "pass2"
    /\ \E n \in staged :
        LET r == tag_photo(n, tmp[n])
        IN  IF r.error # "none"
            THEN /\ phase' = "failed2"
                 /\ error' = r.error
                 /\ UNCHANGED <<tmp, final, staged, moved>>
            ELSE IF n \in DOMAIN final
            THEN /\ phase' = "failed2"
                 /\ error' = "shutil.Error"
                 /\ tmp' = Put(tmp, n, r.file)
                 /\ UNCHANGED <<final, staged, moved>>
            ELSE /\ tmp' = Remove(tmp, n)
                 /\ final' = Put(final, n, r.file)
                 /\ staged' = staged \ {n}
                 /\ moved' = moved \cup {n}
                 /\ UNCHANGED <<phase, error>>
    /\ UNCHANGED <<tagged, subfolders, subfolder, photos, videos, warned>>
    /\ UNCHANGED <<resolverVars, writerVars>>

\* The second pass has processed every staged photo.
Finish ==
    /\ phase = "pass2"
    /\ staged = {}
    /\ phase' = "done"
    /\ UNCHANGED <<tagged, error, subfolders, subfolder, photos, videos, warned,
                   tmp, final, staged, moved>>
    /\ UNCHANGED <<resolverVars, writerVars>>

Next ==
    \/ EnterSubfolder
    \/ StagePhoto
    \/ CopyVideo
    \/ LeaveSubfolder
    \/ StartSecondPass
    \/ TagAndMove
    \/ Finish

Spec == Init /\ [][Next]_vars

(***************************************************************************)
(* The resolver on one photo: first-pass name, then second-pass recovery.  *)
(***************************************************************************)
ResolverInit ==
    /\ r_pc = "input"
    /\ r_in \in Inputs
    /\ r_date \in GenHints
    /\ r_out = NoOutcome
    /\ r_rec = Raised
    /\ r_tag = <<>>
    /\ PipelineOff
    /\ WriterOff

\* Lines 271-297 on the photo.
Resolve ==
    /\ r_pc = "input"
    /\ r_out' = resolve(r_in.name, r_date)
    /\ r_pc' = IF r_out'.raised THEN "raised" ELSE "resolved"
    /\ UNCHANGED <<r_in, r_date, r_rec, r_tag>>
    /\ UNCHANGED <<pipelineVars, writerVars>>

\* Lines 328-330 on the staged name; the second pass lists the staged file
\* when its name has '.jpg'.
Recover ==
    /\ r_pc = "resolved"
    /\ Contains(r_out.new_name, DotJpg)
    /\ r_rec' = recover(r_out.new_name)
    /\ r_tag' = IF r_rec'.ok THEN local_time_bytestr(r_rec'.val) ELSE <<>>
    /\ r_pc' = IF r_rec'.ok THEN "recovered" ELSE "raised"
    /\ UNCHANGED <<r_in, r_date, r_out>>
    /\ UNCHANGED <<pipelineVars, writerVars>>

ResolverNext == Resolve \/ Recover

SpecResolver == ResolverInit /\ [][ResolverNext]_vars

(***************************************************************************)
(* The metadata writer applied to one file again and again.                *)
(***************************************************************************)
WriterNames ==
    {CameraName(dt) : dt \in {g \in GenInstants : g.year = MaxYear /\ g.month = 12}}
    \cup {IMG_0001,
          IMG \o <<"_">> \o DateDigits(DateTime(MaxYear, 11, 22, 0, 0, 0, 0))
              \o NoonInfix \o EpochName(DateTime(2022, 11, 24, 2, 28, 1, 0), 625)}

WriterBlocks ==
    {Exif("absent", <<>>), Exif("unparseable", <<>>), NoTagBlock,
     Exif("parsed", TagBytes(DateTime(2022, 11, 21, 22, 1, 14, 0))),
     Exif("parsed", TagBytes(DateTime(MaxYear, 12, 31, 23, 59, 59, 0)))}

WriterInit ==
    /\ w_pc = "on"
    /\ w_name \in WriterNames
    /\ \E e \in WriterBlocks :
        /\ w_file = File(0, 0, e)
        /\ w_prev = File(0, 0, e)
    /\ w_error = "none"
    /\ w_n = 0
    /\ PipelineOff
    /\ ResolverOff

\* Lines 319-337 on the file.
ApplyWriter ==
    /\ w_pc = "on"
    /\ w_n < MaxApply
    /\ LET r == tag_photo(w_name, w_file)
       IN  /\ w_file' = r.file
           /\ w_error' = r.error
    /\ w_prev' = w_file
    /\ w_n' = w_n + 1
    /\ UNCHANGED <<w_pc, w_name>>
    /\ UNCHANGED <<pipelineVars, resolverVars>>

WriterNext == ApplyWriter

SpecWriter == WriterInit /\ [][WriterNext]_vars

(***************************************************************************)
(* Vocabulary of the properties.                                           *)
(***************************************************************************)
\* The day after a date, by carry into the month and the year.
NextDay(dt) ==
    IF dt.day < DaysInMonth(dt.year, dt.month)
    THEN [dt EXCEPT !.day = dt.day + 1]
    ELSE IF dt.month < 12
    THEN [dt EXCEPT !.day = 1, !.month = dt.month + 1]
    ELSE [dt EXCEPT !.day = 1, !.month = 1, !.year = dt.year + 1]

\* An instant plus exactly eight hours, by carry into the next day.
EightHoursLater(dt) ==
    IF dt.hour < 16
    THEN [dt EXCEPT !.hour = dt.hour + 8]
    ELSE [NextDay(dt) EXCEPT !.hour = dt.hour - 16]

\* A datetime truncated to the second.
ToSecond(dt) == [dt EXCEPT !.microsecond = 0]

\* The input is a device-UTC name, or an epoch-milliseconds name of the
\* form the notebook knows (it starts with 16).
IsConvertedForm(in) ==
    \/ in.form = "device"
    \/ in.form = "epoch" /\ Prefix(in.name, 2) = SixteenPrefix

\* The first pass has run on the resolver's photo.
Resolved == r_pc \in {"resolved", "recovered", "raised"}

\* Characters 4-18 of a name, rendered as YYYY:MM:DD HH:MM:SS.
TagOfName(n) ==
    SubSeq(n, 5, 8) \o <<":">> \o SubSeq(n, 9, 10) \o <<":">> \o SubSeq(n, 11, 12)
        \o <<" ">> \o SubSeq(n, 14, 15) \o <<":">> \o SubSeq(n, 16, 17)
        \o <<":">> \o SubSeq(n, 18, 19)

\* Fifteen characters that spell a date and a time of day.
IsStamp(s) ==
    /\ Len(s) = 15
    /\ s[9] = "_"
    /\ AllDigits(SubSeq(s, 1, 8))
    /\ AllDigits(SubSeq(s, 10, 15))
    /\ int(SubSeq(s, 5, 6)) \in 1..12
    /\ int(SubSeq(s, 7, 8)) \in 1..DaysInMonth(int(SubSeq(s, 1, 4)), int(SubSeq(s, 5, 6)))
    /\ int(SubSeq(s, 10, 11)) \in 0..23
    /\ int(SubSeq(s, 12, 13)) \in 0..59
    /\ int(SubSeq(s, 14, 15)) \in 0..59

\* IMG_YYYYMMDD_HHMMSS.jpg, or IMG_<date>_120000_<the name of a file>.
IsCanonicalName(n) ==
    /\ Prefix(n, 4) = IMG \o <<"_">>
    /\ IsStamp(Slice(n, 4, 19))
    /\ \/ Slice(n, 19, Len(n)) = DotJpg
       \/ /\ Slice(n, 12, 20) = NoonInfix
          /\ \E i \in FileIds : Slice(n, 20, Len(n)) = Catalog[i].name

\* A name of none of the three forms, by its prefix.
IsUnknownShape(name) ==
    /\ Prefix(name, 3) # IMG
    /\ Prefix(name, 3) # PXL
    /\ Prefix(name, 2) # SixteenPrefix

\* The source file had no datetime tag.
Untagged(i) == Catalog[i].exif.tag = <<>>

\* The loops of the first pass have run to their end.
FirstPassDone == phase = "pass1" /\ subfolders = {} /\ subfolder = <<>>

\* The staging folder when the photos of a folder are staged by ascending id.
RECURSIVE StageInOrder(_, _, _)
StageInOrder(st, ids, dir) ==
    IF ids = {} \/ st.raised THEN st
    ELSE LET i   == CHOOSE j \in ids : \A k \in ids : j <= k
             out == resolve(Catalog[i].name, current_date(dir))
         IN  IF out.raised
             THEN [raised |-> TRUE, tmp |-> st.tmp]
             ELSE StageInOrder([raised |-> FALSE,
                                tmp |-> copy_to_tmp(st.tmp, i, out)],
                               ids \ {i}, dir)

\* The staging folder when the folders are visited in one fixed order.
RECURSIVE StageFolders(_, _)
StageFolders(st, dirs) ==
    IF dirs = {} \/ st.raised THEN st
    ELSE LET d == CHOOSE x \in dirs : TRUE
         IN  StageFolders(StageInOrder(st, shortlisted_photos(d), d), dirs \ {d})

ReferenceStaging ==
    StageFolders([raised |-> FALSE, tmp |-> EmptyFolder], Folders).tmp

(***************************************************************************)
(* Properties.                                                             *)
(***************************************************************************)
\* C1 (as stated): every file the second pass has moved carries, in tag
\* 36867, the timestamp of characters 4-18 of its name, whether or not it
\* carried a tag before.
C1_TagAgreesWithName ==
    \A n \in moved : final[n].exif.tag = TagOfName(n)

\* C1 (amended): every file the second pass has moved that carried no
\* datetime tag before the pass carries the timestamp of characters 4-18 of
\* its name as YYYY:MM:DD HH:MM:SS; a tag the file already carried is kept.
C1_WrittenTagAgreesWithName ==
    \A n \in moved :
        IF Untagged(final[n].src)
        THEN final[n].exif.tag = TagOfName(n)
        ELSE final[n].exif.tag = Catalog[final[n].src].exif.tag

\* A file staged under a fallback name has been tagged with noon and moved.
C1_Witness ==
    \E n \in moved :
        /\ Untagged(final[n].src)
        /\ Slice(n, 12, 20) = NoonInfix
        /\ final[n].exif.tag = TagOfName(n)

\* C2: a shortlisted photo of none of the three forms has no file in the
\* staging folder.
C2_UnknownShapeNotStaged ==
    \A n \in DOMAIN tmp : ~IsUnknownShape(Catalog[tmp[n].src].name)

\* C3: the second pass does not fail on a staged file whose metadata block
\* is missing or unparseable.
C3_MissingBlockTolerated ==
    error \notin {"KeyError", "InvalidImageDataError"}

\* C4: an application of the writer to a file whose tag is populated leaves
\* the file as it was, every application after the first leaves the file as
\* it was, and the file is saved with a new tag at most once.
C4_WriterIdempotent ==
    /\ (w_n >= 1 /\ w_prev.exif.tag # <<>>) => w_file = w_prev
    /\ w_n >= 2 => w_file = w_prev
    /\ w_file.saves <= 1

\* The writer wrote the tag once and has been applied again.
C4_Witness ==
    /\ w_n >= 2
    /\ w_file.saves = 1
    /\ w_file.exif.tag = TagOfName(w_name)

HasOwnTimestamp ==
    \/ r_in.form = "camera"
    \/ /\ IsConvertedForm(r_in)
       /\ DateDigits(EightHoursLater(r_in.dt)) = r_date

\* C7: the timestamp recovered from characters 4-18 of such a name renders
\* as YYYYMMDD_HHMMSS to those same 15 characters.
C7_RecoveryRoundTrip ==
    (HasOwnTimestamp /\ r_pc \in {"recovered", "raised"}) =>
        /\ r_rec.ok
        /\ strftime(StampFormat, r_rec.val) = Slice(r_out.new_name, 4, 19)

\* A device name staged under its local time of the next day, recovered.
C7_Witness ==
    /\ r_pc = "recovered"
    /\ r_in.form = "device"
    /\ HasOwnTimestamp
    /\ r_rec.val.day # r_in.dt.day
    /\ r_rec.val.hour = r_in.dt.hour - 16

\* C8: a shortlisted photo that matches none of the three forms never ends
\* the first pass; the pass goes on to the other photos.
C8_FirstPassGoesOn ==
    phase # "failed1"

\* C9 (as stated): when the run has completed, every file in the final
\* folder has a canonical name and a populated datetime tag.
C9_FinalFolderCanonical ==
    phase = "done" =>
        \A n \in DOMAIN final :
            /\ IsCanonicalName(n)
            /\ final[n].exif.tag # <<>>

\* C9 (amended): every file the second pass has moved to the final folder
\* has a name that starts with IMG, spells a date and time in characters
\* 4-18 and contains .jpg, and has its datetime tag populated.
C9_MovedFilesStampedAndTagged ==
    \A n \in moved :
        /\ n \in DOMAIN final
        /\ Prefix(n, 3) = IMG
        /\ IsStamp(Slice(n, 4, 19))
        /\ Contains(n, DotJpg)
        /\ final[n].exif.tag # <<>>

\* The run has completed with a tagged photo and a video in the final folder.
C9_Witness ==
    /\ phase = "done"
    /\ moved # {}
    /\ \E n \in DOMAIN final : n \notin moved
    /\ \E n \in moved : Untagged(final[n].src)

\* C10: whatever the order of the folders and of the photos in them, a
\* first pass that runs to its end leaves the same staging folder: the same
\* names, each holding the same source file.
C10_StagingOrderIndependent ==
    FirstPassDone => tmp = ReferenceStaging

====
